---------------------------- MODULE Spec2Model ----------------------------
(***************************************************************************)
(* A model of pagerank.py: crawl, transition_model, sample_pagerank and    *)
(* iterate_pagerank.                                                       *)
(*                                                                         *)
(* Numbers.  The program computes with Python floats.  The model computes  *)
(* with exact rationals <<num, den>> (den > 0, lowest terms), which is the *)
(* arithmetic the properties below are stated in ("sums to exactly 1").    *)
(* Floating-point rounding is therefore outside the model.                 *)
(***************************************************************************)
EXTENDS Integers, Sequences, FiniteSets, TLC

(***************************************************************************)
(* Exact rational arithmetic.  The operations are functions, so that an    *)
(* argument is evaluated once, before the operation is applied.            *)
(***************************************************************************)
Abs(a) == IF a < 0 THEN -a ELSE a

GCD[a \in Nat, b \in Nat] == IF b = 0 THEN a ELSE GCD[b, a % b]

\* The rationals: <<num, den>> in lowest terms with den > 0.
Q == Int \X (Nat \ {0})

\* The rational a/b in lowest terms.
Rat[a \in Int, b \in Int \ {0}] ==
    LET g == GCD[Abs(a), Abs(b)]
        s == IF b < 0 THEN -1 ELSE 1
    IN  <<s * (a \div g), s * (b \div g)>>

Zero == <<0, 1>>
One == <<1, 1>>

RAdd[x \in Q, y \in Q] ==
    LET g == GCD[x[2], y[2]]
    IN  Rat[x[1] * (y[2] \div g) + y[1] * (x[2] \div g), (x[2] \div g) * y[2]]

RNeg[x \in Q] == <<-x[1], x[2]>>

RSub[x \in Q, y \in Q] == RAdd[x, RNeg[y]]

RMul[x \in Q, y \in Q] ==
    LET g1 == GCD[Abs(x[1]), y[2]]
        g2 == GCD[Abs(y[1]), x[2]]
    IN  Rat[(x[1] \div g1) * (y[1] \div g2), (x[2] \div g2) * (y[2] \div g1)]

\* x / k for an integer k # 0.
RDivInt[x \in Q, k \in Int \ {0}] == RMul[x, Rat[1, k]]

RAbs[x \in Q] == <<Abs(x[1]), x[2]>>

\* a/b <= c/d for b, d > 0, by integer parts and remainders (no products).
LeqFrac[a \in Int, b \in Nat, c \in Int, d \in Nat] ==
    IF (a \div b) # (c \div d) THEN (a \div b) < (c \div d)
    ELSE IF a % b = 0 THEN TRUE
    ELSE IF c % d = 0 THEN FALSE
    ELSE LeqFrac[d, c % d, b, a % b]

RLeq[x \in Q, y \in Q] == LeqFrac[x[1], x[2], y[1], y[2]]

RLess[x \in Q, y \in Q] == ~RLeq[y, x]

\* The sum of all values of the mapping f.
Total(f) ==
    LET sum[S \in SUBSET DOMAIN f] ==
            IF S = {} THEN Zero
            ELSE LET p == CHOOSE q \in S : TRUE
                 IN  RAdd[f[p], sum[S \ {p}]]
    IN  sum[DOMAIN f]

(***************************************************************************)
(* Bounds of the model                                                     *)
(***************************************************************************)
\* The largest sample count n tried for sample_pagerank.
MaxN == 2

\* The html files a directory may hold; dictionaries iterate in PageOrder.
PageOrder == <<"1.html", "2.html", "3.html">>
Pages == {PageOrder[j] : j \in DOMAIN PageOrder}

\* A file of the directory that is no html page.
OtherFile == "notes.txt"
FileNames == Pages \cup {OtherFile}

\* The damping factors tried inside [0, 1].  DAMPING = 0.85 of main is not
\* among them: after a few passes of iterate_pagerank its exact ranks need
\* integers beyond the 32 bits of TLC.
Dampings == {Rat[0, 1], Rat[1, 250], Rat[1, 10], Rat[1, 2], Rat[1, 1]}

(***************************************************************************)
(* crawl                                                                   *)
(***************************************************************************)
\* filename.endswith(".html")
EndsWithHtml(filename) == filename \in Pages

\* A directory: each file it holds, with the href targets found in it.
Directories ==
    UNION {[S -> SUBSET FileNames] : S \in SUBSET FileNames}

crawl(directory) ==
    LET html == {f \in DOMAIN directory : EndsWithHtml(f)}
        pages == [f \in html |-> directory[f] \ {f}]
    IN  [f \in html |-> {link \in pages[f] : link \in html}]

\* The corpora main can pass on: crawl's results that hold a page.  No page
\* of them links to itself, and every link target is a key.
Corpora == {crawl(d) : d \in Directories} \ {<<>>}

\* The keys of a dictionary in iteration order.
KeysInOrder(d) == SelectSeq(PageOrder, LAMBDA p : p \in DOMAIN d)

(***************************************************************************)
(* transition_model                                                        *)
(***************************************************************************)
\* len(corpus)
Len_(d) == Cardinality(DOMAIN d)

\* transition_model with the link share divided by the size of the corpus
\* instead of the number of links of the page.
transition_model_share_by_corpus(corp, pg, d) ==
    IF Cardinality(corp[pg]) = 0
    THEN LET prob == Rat[1, Len_(corp)]
         IN  [dest_page \in DOMAIN corp |-> prob]
    ELSE LET prob_no_link == RDivInt[RSub[One, d], Len_(corp)]
             prob_has_link == RAdd[RDivInt[d, Len_(corp)], prob_no_link]
         IN  [dest_page \in DOMAIN corp |->
                 IF dest_page \in corp[pg] THEN prob_has_link
                 ELSE prob_no_link]

\* transition_model with the random-jump floor left out of a linked page.
transition_model_no_floor(corp, pg, d) ==
    IF Cardinality(corp[pg]) = 0
    THEN LET prob == Rat[1, Len_(corp)]
         IN  [dest_page \in DOMAIN corp |-> prob]
    ELSE LET prob_no_link == RDivInt[RSub[One, d], Len_(corp)]
             prob_has_link == RDivInt[d, Cardinality(corp[pg])]
         IN  [dest_page \in DOMAIN corp |->
                 IF dest_page \in corp[pg] THEN prob_has_link
                 ELSE prob_no_link]

transition_model(corp, pg, d) ==
    IF Cardinality(corp[pg]) = 0
    THEN LET prob == Rat[1, Len_(corp)]
         IN  [dest_page \in DOMAIN corp |-> prob]
    ELSE LET prob_no_link == RDivInt[RSub[One, d], Len_(corp)]
             prob_has_link ==
                 RAdd[RDivInt[d, Cardinality(corp[pg])], prob_no_link]
         IN  [dest_page \in DOMAIN corp |->
                 IF dest_page \in corp[pg] THEN prob_has_link
                 ELSE prob_no_link]

(***************************************************************************)
(* The state: one call of one of the three functions                       *)
(***************************************************************************)
VARIABLES
    op,              \* the function called
    pc,              \* where the call is: start, loop, pass, done, error
    corpus,          \* the caller's corpus dictionary
    damping_factor,  \* the damping factor passed
    n,               \* the sample count passed to sample_pagerank
    page,            \* transition_model's argument; the loops' current page
    prob_dist,       \* the distribution transition_model last returned
    PR,              \* the rank dictionary being built
    old_PR,          \* iterate_pagerank's previous rank dictionary
    new_corpus,      \* iterate_pagerank's working corpus
    i,               \* sample_pagerank: iterations of the loop done
    idx,             \* iterate_pagerank: position of the for loop in a pass
    repeat,          \* iterate_pagerank's repeat flag
    result           \* the value returned

vars == <<op, pc, corpus, damping_factor, n, page, prob_dist, PR, old_PR,
          new_corpus, i, idx, repeat, result>>

Ops == {"transition_model", "sample_pagerank", "iterate_pagerank"}

\* An unset local.
None == "None"
Empty == <<>>

\* A call with arguments that satisfy the functions' preconditions.
Init ==
    /\ op \in Ops
    /\ corpus \in Corpora
    /\ damping_factor \in Dampings
    /\ n \in IF op = "sample_pagerank" THEN 1..MaxN ELSE {1}
    /\ page \in IF op = "transition_model" THEN DOMAIN corpus ELSE {None}
    /\ pc = "start"
    /\ prob_dist = Empty
    /\ PR = Empty
    /\ old_PR = Empty
    /\ new_corpus = Empty
    /\ i = 0
    /\ idx = 0
    /\ repeat = FALSE
    /\ result = Empty

(***************************************************************************)
(* A call of transition_model                                              *)
(***************************************************************************)
\* corpus[page] raises KeyError when page is no key of corpus.
TransitionCall ==
    /\ op = "transition_model"
    /\ pc = "start"
    /\ IF page \notin DOMAIN corpus
       THEN /\ pc' = "error"
            /\ UNCHANGED <<prob_dist, result>>
       ELSE /\ prob_dist' = transition_model(corpus, page, damping_factor)
            /\ result' = prob_dist'
            /\ pc' = "done"
    /\ UNCHANGED <<op, corpus, damping_factor, n, page, PR, old_PR,
                   new_corpus, i, idx, repeat>>

(***************************************************************************)
(* sample_pagerank                                                         *)
(***************************************************************************)
\* inc off by one: 1 / (n + 1).
inc_off_by_one == Rat[1, n + 1]

\* inc = 1 / n
inc == Rat[1, n]

\* random.choices(keys, weights): a page is drawn with probability
\* proportional to its weight, so the pages of positive weight can come out.
\* With a negative weight the library leaves the draw unspecified.
random_choices(dist) ==
    IF \A p \in DOMAIN dist : RLeq[Zero, dist[p]]
    THEN {p \in DOMAIN dist : RLess[Zero, dist[p]]}
    ELSE DOMAIN dist

SampleInit ==
    /\ op = "sample_pagerank"
    /\ pc = "start"
    /\ IF n = 0 \/ DOMAIN corpus = {}
       THEN \* 1 / 0, or random.choice of an empty list
            /\ pc' = "error"
            /\ UNCHANGED <<PR, page, i>>
       ELSE /\ PR' = [p \in DOMAIN corpus |-> Zero]
            /\ page' \in DOMAIN corpus
            /\ i' = 0
            /\ pc' = "loop"
    /\ UNCHANGED <<op, corpus, damping_factor, n, prob_dist, old_PR,
                   new_corpus, idx, repeat, result>>

SampleStep ==
    /\ op = "sample_pagerank"
    /\ pc = "loop"
    /\ i < n
    /\ LET dist == transition_model(corpus, page, damping_factor)
       IN  /\ PR' = [PR EXCEPT ![page] = RAdd[@, inc]]
           /\ prob_dist' = dist
           /\ i' = i + 1
           /\ IF RLeq[Total(dist), Zero]
              THEN \* random.choices: total of weights must be positive
                   /\ pc' = "error"
                   /\ page' = page
              ELSE /\ page' \in random_choices(dist)
                   /\ pc' = "loop"
    /\ UNCHANGED <<op, corpus, damping_factor, n, old_PR, new_corpus, idx,
                   repeat, result>>

SampleReturn ==
    /\ op = "sample_pagerank"
    /\ pc = "loop"
    /\ i >= n
    /\ result' = PR
    /\ pc' = "done"
    /\ UNCHANGED <<op, corpus, damping_factor, n, page, prob_dist, PR, old_PR,
                   new_corpus, i, idx, repeat>>

(***************************************************************************)
(* iterate_pagerank                                                        *)
(***************************************************************************)
\* FixDangling without the copy (new_corpus = corpus): the rewriting lands
\* in the caller's dictionary.
FixDanglingInPlace(corp) ==
    LET fixed == [p \in DOMAIN corp |->
                     IF Cardinality(corp[p]) = 0 THEN DOMAIN corp
                     ELSE corp[p]]
    IN  [corpus |-> fixed, new_corpus |-> fixed]

\* FixDangling giving a page without links all other pages, not itself.
FixDanglingToOthers(corp) ==
    [corpus |-> corp,
     new_corpus |-> [p \in DOMAIN corp |->
                        IF Cardinality(corp[p]) = 0 THEN DOMAIN corp \ {p}
                        ELSE corp[p]]]

\* new_corpus = corpus.copy(), then every page without links is given all
\* keys: the caller's dictionary and the working copy after these lines.
FixDangling(corp) ==
    [corpus |-> corp,
     new_corpus |-> [p \in DOMAIN corp |->
                        IF Cardinality(corp[p]) = 0 THEN DOMAIN corp
                        ELSE corp[p]]]

\* N = len(corpus)
N == Len_(corpus)

\* starting_value = 1 / N
starting_value == Rat[1, N]

\* factor without the division by N.
factor_undivided == RSub[One, damping_factor]

\* factor = (1 - damping_factor) / N
factor == RDivInt[RSub[One, damping_factor], N]

\* ReadRank updating in place: a page the pass has already written is read
\* from PR.
ReadRankInPlace(origin_page) ==
    LET keys == KeysInOrder(new_corpus)
    IN  IF \E k \in 1..Len(keys) : k < idx /\ keys[k] = origin_page
        THEN PR[origin_page]
        ELSE old_PR[origin_page]

\* The rank of origin_page that the sum of a pass reads.
ReadRank(origin_page) == old_PR[origin_page]

\* The inner loop: sum over the pages that link to pg.
LinkSum(pg) ==
    LET origins == {q \in DOMAIN new_corpus : pg \in new_corpus[q]}
        share == [q \in origins |->
                     RDivInt[ReadRank(q), Cardinality(new_corpus[q])]]
    IN  Total(share)

\* PR[page] = factor + damping_factor * sum
NewRank(pg) == RAdd[factor, RMul[damping_factor, LinkSum(pg)]]

Tolerance == Rat[1, 1000]

\* Moved with >= in place of >.
MovedOrEqual(new, old) == RLeq[Tolerance, RAbs[RSub[new, old]]]

\* abs(PR[page] - old_PR[page]) > 0.001
Moved(new, old) == RLess[Tolerance, RAbs[RSub[new, old]]]

\* CopyBack that leaves old_PR as it was.
CopyBackStale == old_PR

\* The dictionary assigned to old_PR before the next pass.
CopyBack == PR

IterateInit ==
    /\ op = "iterate_pagerank"
    /\ pc = "start"
    /\ LET fixed == FixDangling(corpus)
       IN  /\ corpus' = fixed.corpus
           /\ new_corpus' = fixed.new_corpus
    /\ IF N = 0
       THEN \* 1 / 0
            /\ pc' = "error"
            /\ UNCHANGED <<old_PR, PR, repeat, idx>>
       ELSE /\ old_PR' = [p \in DOMAIN corpus |-> starting_value]
            /\ PR' = Empty
            /\ repeat' = FALSE
            /\ idx' = 1
            /\ pc' = "pass"
    /\ UNCHANGED <<op, damping_factor, n, page, prob_dist, i, result>>

\* One iteration of the for loop over new_corpus.
IteratePage ==
    /\ op = "iterate_pagerank"
    /\ pc = "pass"
    /\ idx <= Len(KeysInOrder(new_corpus))
    /\ LET pg == KeysInOrder(new_corpus)[idx]
           rank == NewRank(pg)
       IN  /\ PR' = [q \in DOMAIN PR \cup {pg} |->
                        IF q = pg THEN rank ELSE PR[q]]
           /\ repeat' = (repeat \/ Moved(rank, old_PR[pg]))
           /\ page' = pg
    /\ idx' = idx + 1
    /\ UNCHANGED <<op, pc, corpus, damping_factor, n, prob_dist, old_PR,
                   new_corpus, i, result>>

\* After the for loop: break and return PR, or copy PR and go round again.
IterateCheck ==
    /\ op = "iterate_pagerank"
    /\ pc = "pass"
    /\ idx > Len(KeysInOrder(new_corpus))
    /\ IF ~repeat
       THEN /\ result' = PR
            /\ pc' = "done"
            /\ UNCHANGED <<old_PR, repeat, idx>>
       ELSE /\ old_PR' = CopyBack
            /\ repeat' = FALSE
            /\ idx' = 1
            /\ UNCHANGED <<result, pc>>
    /\ UNCHANGED <<op, corpus, damping_factor, n, page, prob_dist, PR,
                   new_corpus, i>>

Next ==
    \/ TransitionCall
    \/ SampleInit
    \/ SampleStep
    \/ SampleReturn
    \/ IterateInit
    \/ IteratePage
    \/ IterateCheck

Spec == Init /\ [][Next]_vars

(***************************************************************************)
(* Calls whose arguments break a precondition                              *)
(***************************************************************************)
\* A link target that is no page of the corpus.
Foreign == "x.html"

\* The empty corpus, and corpora with one link to a page they do not hold.
InvalidCorpora ==
    {Empty} \cup
    UNION {{[c EXCEPT ![p] = @ \cup {Foreign}] : p \in DOMAIN c} : c \in Corpora}

\* Damping factors outside [0, 1].
DampingsOutside == {Rat[-1, 2], Rat[3, 2]}

ValidCorpus(corp) ==
    /\ DOMAIN corp # {}
    /\ \A p \in DOMAIN corp : corp[p] \subseteq DOMAIN corp

ValidDamping(d) == RLeq[Zero, d] /\ RLeq[d, One]

\* An argument the specification calls invalid.
InvalidInput ==
    \/ ~ValidCorpus(corpus)
    \/ ~ValidDamping(damping_factor)
    \/ op = "sample_pagerank" /\ n <= 0

\* A call with at least one invalid argument.  iterate_pagerank is followed
\* for damping factors below 1 only: from 1 on, the values of such calls can
\* grow or shrink without bound, beyond the 32-bit integers of TLC.
InitInvalid ==
    /\ op \in Ops
    /\ corpus \in Corpora \cup InvalidCorpora
    /\ damping_factor \in Dampings \cup DampingsOutside
    /\ op = "iterate_pagerank" => RLess[damping_factor, One]
    /\ n \in IF op = "sample_pagerank" THEN -1..MaxN ELSE {1}
    /\ page \in IF op = "transition_model" THEN Pages ELSE {None}
    /\ InvalidInput
    /\ pc = "start"
    /\ prob_dist = Empty
    /\ PR = Empty
    /\ old_PR = Empty
    /\ new_corpus = Empty
    /\ i = 0
    /\ idx = 0
    /\ repeat = FALSE
    /\ result = Empty

SpecInvalid == InitInvalid /\ [][Next]_vars

\* The loop of iterate_pagerank runs whenever it can: the program is one
\* thread that never waits.
FairSpec == Init /\ [][Next]_vars /\ WF_vars(Next)

(***************************************************************************)
(* Properties                                                              *)
(***************************************************************************)
NonNegative(f) == \A p \in DOMAIN f : RLeq[Zero, f[p]]

\* transition_model has returned to a direct caller.
TransitionDone == op = "transition_model" /\ pc = "done"

\* iterate_pagerank has computed a whole new dictionary: the for loop of a
\* pass is over, or the function has returned.
PassComplete ==
    /\ op = "iterate_pagerank"
    /\ \/ pc = "pass" /\ idx > Len(KeysInOrder(new_corpus))
       \/ pc = "done"

Uniform == [p \in DOMAIN corpus |-> Rat[1, Cardinality(DOMAIN corpus)]]

\* C1: every distribution transition_model returns has exactly the corpus
\* pages as keys, no negative value, and values that sum to exactly 1.
C1_TransitionIsDistribution ==
    prob_dist # Empty =>
        /\ DOMAIN prob_dist = DOMAIN corpus
        /\ NonNegative(prob_dist)
        /\ Total(prob_dist) = One

C1_Witness ==
    /\ TransitionDone
    /\ Cardinality(DOMAIN corpus) = 3
    /\ Cardinality(corpus[page]) = 1
    /\ damping_factor = Rat[1, 10]

\* The distribution of the specification for the page `page`: the floor
\* (1-d)/|corpus| for every page plus d/|outLinks| for a linked page, and
\* 1/|corpus| for every page when `page` has no links.
Floor == RDivInt[RSub[One, damping_factor], Cardinality(DOMAIN corpus)]

Reference(p) ==
    IF corpus[page] = {} THEN Rat[1, Cardinality(DOMAIN corpus)]
    ELSE RAdd[Floor,
              IF p \in corpus[page]
              THEN RDivInt[damping_factor, Cardinality(corpus[page])]
              ELSE Zero]

\* C2: transition_model returns the reference distribution; for a page with
\* links, the mass above the floor summed over the linked pages is the
\* damping factor, and every linked page gets the same share of it.
C2_TransitionMatchesReference ==
    TransitionDone =>
        /\ \A p \in DOMAIN corpus : result[p] = Reference(p)
        /\ corpus[page] # {} =>
              LET above == [p \in corpus[page] |-> RSub[result[p], Floor]]
              IN  /\ Total(above) = damping_factor
                  /\ \A p, q \in corpus[page] : above[p] = above[q]

C2_Witness ==
    /\ TransitionDone
    /\ Cardinality(corpus[page]) = 2
    /\ damping_factor = Rat[1, 2]
    /\ \E q \in DOMAIN corpus : corpus[q] = {}

\* C3: sample_pagerank keeps a weight for every corpus page, every step of
\* its loop adds 1/n to exactly one page, after k steps the weights total
\* k/n, and the dictionary returned has the corpus pages as keys and sums
\* to 1.
C3_SampleWeights ==
    /\ [](op = "sample_pagerank" /\ pc \in {"loop", "done"} =>
            /\ DOMAIN PR = DOMAIN corpus
            /\ NonNegative(PR)
            /\ Total(PR) = Rat[i, n]
            /\ pc = "done" => /\ DOMAIN result = DOMAIN corpus
                              /\ Total(result) = One)
    /\ [][SampleStep =>
            \E p \in DOMAIN corpus :
                /\ PR'[p] = RAdd[PR[p], Rat[1, n]]
                /\ \A q \in DOMAIN corpus \ {p} : PR'[q] = PR[q]]_vars

C3_Witness ==
    /\ op = "sample_pagerank"
    /\ pc = "done"
    /\ n = 2
    /\ \E p, q \in DOMAIN corpus : result[p] = Zero /\ result[q] = One

\* C4: in iterate_pagerank the previous dictionary always sums to 1, every
\* completed pass yields a dictionary over the corpus pages that has no
\* negative value and sums to 1, and so does the dictionary returned.
C4_IterateSumsToOne ==
    /\ op = "iterate_pagerank" /\ pc \in {"pass", "done"} =>
          /\ DOMAIN old_PR = DOMAIN corpus
          /\ Total(old_PR) = One
    /\ PassComplete =>
          /\ DOMAIN PR = DOMAIN corpus
          /\ NonNegative(PR)
          /\ Total(PR) = One
    /\ op = "iterate_pagerank" /\ pc = "done" => result = PR

C4_Witness ==
    /\ op = "iterate_pagerank"
    /\ pc = "done"
    /\ old_PR # Uniform
    /\ damping_factor = Rat[1, 2]
    /\ \E q \in DOMAIN corpus : corpus[q] = {}

\* C5 as claimed: for every damping factor in [0, 1], 1 included, the loop
\* of iterate_pagerank reaches a pass without a change above 0.001 and the
\* function returns.
C5_AlwaysTerminates ==
    op = "iterate_pagerank" => <>(pc = "done")

\* C5 as amended: for every damping factor in [0, 1), the loop of
\* iterate_pagerank reaches a pass without a change above 0.001 and the
\* function returns.
C5_TerminatesBelowOne ==
    (op = "iterate_pagerank" /\ RLess[damping_factor, One]) => <>(pc = "done")

C5_Witness ==
    /\ op = "iterate_pagerank"
    /\ pc = "done"
    /\ RLess[damping_factor, One]
    /\ old_PR # Uniform

\* C7: no step of transition_model, sample_pagerank or iterate_pagerank
\* changes the caller's corpus: its keys and every page's links stay as
\* they were, also where iterate_pagerank gives a page without links all
\* pages in its working copy.
C7_CorpusUnchanged == [][corpus' = corpus]_vars

C7_Witness ==
    /\ op = "iterate_pagerank"
    /\ pc = "done"
    /\ \E q \in DOMAIN corpus : corpus[q] = {} /\ new_corpus[q] = DOMAIN corpus

\* The links of q in the working corpus of the specification.
OutLinks(q) == IF corpus[q] = {} THEN DOMAIN corpus ELSE corpus[q]

\* One synchronous pass of the specification applied to the dictionary old.
Jacobi(old) ==
    [p \in DOMAIN corpus |->
        LET share == [q \in {r \in DOMAIN corpus : p \in OutLinks(r)} |->
                         RDivInt[old[q], Cardinality(OutLinks(q))]]
        IN  RAdd[Floor, RMul[damping_factor, Total(share)]]]

\* C8: the first pass starts from 1/N for every page, and every value a pass
\* has written is the synchronous update of the complete previous
\* dictionary, whatever the pass wrote before it; so a completed pass is
\* Jacobi(old_PR).
C8_SynchronousUpdate ==
    op = "iterate_pagerank" /\ pc \in {"pass", "done"} =>
        /\ PR = Empty => old_PR = Uniform
        /\ \A k \in 1..Len(KeysInOrder(new_corpus)) :
              k < idx =>
                  LET p == KeysInOrder(new_corpus)[k]
                  IN  PR[p] = Jacobi(old_PR)[p]
        /\ PassComplete => PR = Jacobi(old_PR)

C8_Witness ==
    /\ PassComplete
    /\ pc = "pass"
    /\ old_PR # Uniform
    /\ PR # old_PR
    /\ Cardinality(DOMAIN corpus) = 3

WithinTolerance ==
    \A p \in DOMAIN corpus : RLeq[RAbs[RSub[PR[p], old_PR[p]]], Tolerance]

\* C9: after a pass iterate_pagerank returns the dictionary of that pass if
\* every page changed by at most 0.001, and otherwise makes that dictionary
\* the previous one and runs another pass; it returns at no other place.
C9_StopsExactlyWhenConverged ==
    [][/\ (PassComplete /\ pc = "pass") =>
            IF WithinTolerance
            THEN pc' = "done" /\ result' = PR /\ PR' = PR
            ELSE pc' = "pass" /\ old_PR' = PR /\ idx' = 1
       /\ (op = "iterate_pagerank" /\ pc # "done" /\ pc' = "done") =>
            PassComplete /\ WithinTolerance]_vars

C9_Witness ==
    /\ op = "iterate_pagerank"
    /\ pc = "done"
    /\ \E p \in DOMAIN corpus :
          RAbs[RSub[result[p], old_PR[p]]] = Tolerance

\* What page q passes to page p in one pass of iterate_pagerank: its part of
\* the random-jump term and its part through the links of the working corpus.
PassContribution(q, p) ==
    RAdd[RMul[old_PR[q], factor],
         IF p \in new_corpus[q]
         THEN RMul[damping_factor,
                   RDivInt[old_PR[q], Cardinality(new_corpus[q])]]
         ELSE Zero]

\* C10: in a pass of iterate_pagerank a page q without links passes
\* old_PR[q] * transition_model(corpus, q, d)[p] = old_PR[q] / N to every
\* page p, and a completed pass is
\* PR[p] = sum over q of old_PR[q] * transition_model(corpus, q, d)[p].
C10_DanglingEquivalence ==
    PassComplete =>
        /\ \A q \in DOMAIN corpus : \A p \in DOMAIN corpus :
              corpus[q] = {} =>
                  /\ PassContribution(q, p) =
                        RMul[old_PR[q],
                             transition_model(corpus, q, damping_factor)[p]]
                  /\ PassContribution(q, p) = RDivInt[old_PR[q], N]
        /\ \A p \in DOMAIN corpus :
              PR[p] = Total([q \in DOMAIN corpus |->
                        RMul[old_PR[q],
                             transition_model(corpus, q, damping_factor)[p]]])

C10_Witness ==
    /\ PassComplete
    /\ pc = "pass"
    /\ damping_factor = Rat[1, 2]
    /\ old_PR # Uniform
    /\ \E q, r \in DOMAIN corpus :
          corpus[q] = {} /\ corpus[r] # {} /\ RLess[Zero, old_PR[q]]

\* C6: a call with an empty corpus, a link target outside the corpus, a
\* damping factor outside [0, 1] or, for sample_pagerank, n <= 0 never
\* returns a value: it ends in an error.
C6_InvalidInputRejected == InvalidInput => pc # "done"

=============================================================================
